---- MODULE Spec2Model ----
(***************************************************************************)
(* A model of the Proguard mapping parser: the line grammar and the record *)
(* stream of src/src/mapping.rs, and the regex based lookup of             *)
(* src/src/parser.rs (find_class, get_field, get_methods, has_line_info).  *)
(*                                                                         *)
(* Text is a sequence of one-character strings, one per byte.  A slice     *)
(* &[u8] / &str is the sequence of its bytes; where the code keeps the     *)
(* position of a slice inside the buffer (a regex match), the model keeps  *)
(* the 0-based byte offsets.                                               *)
(***************************************************************************)
EXTENDS Integers, Sequences, FiniteSets, TLC

VARIABLES
    input,      \* the document or line the run was started on, as it was composed
    source,     \* ProguardMapping.source
    slice,      \* MappingRecordIter.slice
    line,       \* local `line` of MappingRecordIter::next
    rest,       \* local `rest` of MappingRecordIter::next
    pc,         \* position of the caller / of MappingRecordIter::next
    yielded,    \* the items next() has returned so far, in order
    backing,    \* MappingView.backing (the buffer)
    cls,        \* the Option<Class> the last find_class returned
    res,        \* the result of the last lookup call
    rec         \* the result of the last MappingRecord::try_parse

vars == <<input, source, slice, line, rest, pc, yielded, backing, cls, res, rec>>

(***************************************************************************)
(* Bounds of the model.                                                    *)
(***************************************************************************)
MaxSegs == 2        \* terminated lines of a streamed document
MaxDocLines == 3    \* lines of a document that is looked up in
MaxQuery == 4       \* largest queried line number
MaxLineNo == 2      \* largest small line number written in a grammar line
MaxTokens == 4      \* tokens of a class-shaped line

(***************************************************************************)
(* Bytes.                                                                  *)
(***************************************************************************)
LF == "\n"
CR == "\r"
SP == " "
XFF == "<FF>"       \* a byte that is not valid UTF-8

Digits == <<"0", "1", "2", "3", "4", "5", "6", "7", "8", "9">>
DigitSet == {Digits[i] : i \in 1..10}
Whitespace == {SP, LF, CR, "\t"}

IsDigit(c) == c \in DigitSet
DigitVal(c) == (CHOOSE i \in 1..10 : Digits[i] = c) - 1

None == [some |-> FALSE]
NoCall == [op |-> "none"]
Some(v) == [some |-> TRUE, v |-> v]

(***************************************************************************)
(* Slices and the std string operations the parser uses.                   *)
(***************************************************************************)
\* &s[from..to] with 0-based, end-exclusive offsets
Slice(s, from, to) == SubSeq(s, from + 1, to)

\* smallest 0-based offset >= i whose byte is in S; Len(s) when there is none
RECURSIVE FindIn(_, _, _)
FindIn(s, i, S) ==
    IF i >= Len(s) THEN Len(s)
    ELSE IF s[i + 1] \in S THEN i
    ELSE FindIn(s, i + 1, S)

\* smallest 0-based offset >= i whose byte is not in S; Len(s) when there is none
RECURSIVE FindNotIn(_, _, _)
FindNotIn(s, i, S) ==
    IF i >= Len(s) THEN Len(s)
    ELSE IF s[i + 1] \notin S THEN i
    ELSE FindNotIn(s, i + 1, S)

\* largest 0-based offset < i whose byte is c; -1 when there is none
RECURSIVE RFind(_, _, _)
RFind(s, i, c) ==
    IF i <= 0 THEN -1
    ELSE IF s[i] = c THEN i - 1
    ELSE RFind(s, i - 1, c)

starts_with(s, p) == Len(s) >= Len(p) /\ SubSeq(s, 1, Len(p)) = p
ends_with(s, c) == Len(s) > 0 /\ s[Len(s)] = c

\* str::splitn(n, c), n >= 1: every piece the iterator yields, in order
RECURSIVE splitn(_, _, _)
splitn(s, n, c) ==
    LET i == FindIn(s, 0, {c}) IN
    IF n <= 1 \/ i = Len(s) THEN <<s>>
    ELSE <<Slice(s, 0, i)>> \o splitn(Slice(s, i + 1, Len(s)), n - 1, c)

\* str::rsplitn(2, c): the piece after the last c, then the piece before it
rsplitn2(s, c) ==
    LET i == RFind(s, Len(s), c) IN
    IF i < 0 THEN <<s>>
    ELSE <<Slice(s, i + 1, Len(s)), Slice(s, 0, i)>>

\* <[u8]>::split(|x| x == c): an empty slice yields one empty piece
RECURSIVE split(_, _)
split(s, c) ==
    LET i == FindIn(s, 0, {c}) IN
    IF i = Len(s) THEN <<s>>
    ELSE <<Slice(s, 0, i)>> \o split(Slice(s, i + 1, Len(s)), c)

\* str::trim
trim(s) ==
    LET a == FindNotIn(s, 0, Whitespace) IN
    IF a = Len(s) THEN <<>>
    ELSE LET b == CHOOSE j \in (a + 1)..Len(s) :
                    /\ s[j] \notin Whitespace
                    /\ \A k \in (j + 1)..Len(s) : s[k] \in Whitespace
         IN SubSeq(s, a + 1, b)

\* std::str::from_utf8(..).is_ok()
is_utf8(s) == \A i \in 1..Len(s) : s[i] # XFF

(***************************************************************************)
(* str::parse::<usize>() and ::<u32>(): an optional '+', then decimal      *)
(* digits, at least one; a value above the type's maximum is an error.     *)
(***************************************************************************)
USIZE_MAX == <<"1", "8", "4", "4", "6", "7", "4", "4", "0", "7",
               "3", "7", "0", "9", "5", "5", "1", "6", "1", "5">>
U32_MAX == <<"4", "2", "9", "4", "9", "6", "7", "2", "9", "5">>

RECURSIVE DigitsValue(_)
DigitsValue(d) ==
    IF Len(d) = 0 THEN 0
    ELSE 10 * DigitsValue(SubSeq(d, 1, Len(d) - 1)) + DigitVal(d[Len(d)])

\* d <= m for digit strings without leading zeros
DigitsLeq(d, m) ==
    \/ Len(d) < Len(m)
    \/ /\ Len(d) = Len(m)
       /\ \/ d = m
          \/ LET i == CHOOSE j \in 1..Len(d) :
                          d[j] # m[j] /\ \A k \in 1..(j - 1) : d[k] = m[k]
             IN DigitVal(d[i]) < DigitVal(m[i])

parse_uint(s, max) ==
    LET d == IF Len(s) > 0 /\ s[1] = "+" THEN Tail(s) ELSE s IN
    IF Len(d) = 0 \/ \E i \in 1..Len(d) : ~IsDigit(d[i]) THEN None
    ELSE LET z == Slice(d, FindNotIn(d, 0, {"0"}), Len(d)) IN
         IF DigitsLeq(z, max) THEN Some(DigitsValue(z)) ELSE None

parse_usize(s) == parse_uint(s, USIZE_MAX)
parse_u32(s) == parse_uint(s, U32_MAX)

(***************************************************************************)
(* mapping.rs: parse_mapping, the grammar of one line.                     *)
(***************************************************************************)
\* LineMapping::default()
LineMappingDefault ==
    [startline |-> 0, endline |-> 0,
     original_startline |-> None, original_endline |-> None]

\* a line starting with '#'
parse_header(l) ==
    LET sp == splitn(Tail(l), 2, ":") IN
    Some([kind |-> "Header",
          key |-> trim(sp[1]),
          value |-> IF Len(sp) > 1 THEN Some(trim(sp[2])) ELSE None])

\* a line that does not start with four spaces
parse_class(l) ==
    LET sp == splitn(l, 3, SP) IN
    IF Len(sp) < 2 THEN None
    ELSE IF sp[2] # <<"-", ">">> \/ ~ends_with(l, ":") THEN None
    ELSE IF Len(sp) < 3 THEN None
    ELSE Some([kind |-> "Class",
               original |-> sp[1],
               obfuscated |-> Slice(sp[3], 0, Len(sp[3]) - 1)])

\* the leading `startline:endline:`; None when a `?` returns early, else the
\* line mapping and the text left to parse
leading_line_mapping(l) ==
    IF Len(l) > 0 /\ IsDigit(l[1])
    THEN LET nums == splitn(l, 3, ":")
             s == parse_usize(nums[1])
             e == IF Len(nums) > 1 THEN parse_usize(nums[2]) ELSE None
         IN IF ~s.some \/ ~e.some \/ Len(nums) < 3 THEN None
            ELSE Some([lm |-> [LineMappingDefault EXCEPT !.startline = s.v,
                                                        !.endline = e.v],
                       l |-> nums[3]])
    ELSE Some([lm |-> LineMappingDefault, l |-> l])

\* the trailing `:originalstartline[:originalendline]` of the name; None when
\* a number does not parse
trailing_line_mapping(lm, nums) ==
    LET os == IF Len(nums) > 1 THEN parse_usize(nums[2]) ELSE None
        oe == IF Len(nums) > 2 THEN parse_usize(nums[3]) ELSE None
    IN IF (Len(nums) > 1 /\ ~os.some) \/ (Len(nums) > 2 /\ ~oe.some) THEN None
       ELSE Some([lm EXCEPT !.original_startline = IF Len(nums) > 1 THEN os ELSE None,
                            !.original_endline = IF Len(nums) > 2 THEN oe ELSE None])

\* line_mapping_gate with the gate on the wrong end of the range
line_mapping_gate_on_endline(lm) == IF lm.endline > 0 THEN Some(lm) ELSE None

\* the line_mapping field of a Method record
line_mapping_gate(lm) == IF lm.startline > 0 THEN Some(lm) ELSE None

\* the record built once type, name and obfuscated name are split
field_or_method(ty, name, obfuscated, lm) ==
    LET args == splitn(name, 2, "(") IN
    IF Len(args) < 2
    THEN Some([kind |-> "Field", ty |-> ty, original |-> args[1],
               obfuscated |-> obfuscated])
    ELSE IF ~ends_with(args[2], ")") THEN None
    ELSE LET split_class == rsplitn2(args[1], ".") IN
         Some([kind |-> "Method",
               ty |-> ty,
               original |-> split_class[1],
               obfuscated |-> obfuscated,
               arguments |-> Slice(args[2], 0, Len(args[2]) - 1),
               original_class |-> IF Len(split_class) > 1
                                  THEN Some(split_class[2]) ELSE None,
               line_mapping |-> line_mapping_gate(lm)])

\* a line that starts with four spaces
parse_member(l) ==
    LET lead == leading_line_mapping(Slice(l, 4, Len(l))) IN
    IF ~lead.some THEN None
    ELSE LET sp == splitn(lead.v.l, 4, SP) IN
         IF Len(sp) < 3 THEN None
         ELSE IF sp[3] # <<"-", ">">> THEN None
         ELSE IF Len(sp) < 4 THEN None
         ELSE LET nums == splitn(sp[2], 3, ":")
                  lm == trailing_line_mapping(lead.v.lm, nums)
              IN IF ~lm.some THEN None
                 ELSE field_or_method(sp[1], nums[1], sp[4], lm.v)

parse_mapping(l) ==
    IF starts_with(l, <<"#">>) THEN parse_header(l)
    ELSE IF ~starts_with(l, <<SP, SP, SP, SP>>) THEN parse_class(l)
    ELSE parse_member(l)

\* MappingRecord::try_parse
try_parse(l) == IF is_utf8(l) THEN parse_mapping(l) ELSE None

(***************************************************************************)
(* The documents and lines the model runs on.  A document is composed from *)
(* lines of known shape, so that what a lookup or the stream should find   *)
(* is known from the composition and not from a second parse.              *)
(***************************************************************************)
ARROW == <<SP, "-", ">", SP>>
INDENT == <<SP, SP, SP, SP>>

RECURSIVE ToDigits(_)
ToDigits(n) ==
    IF n < 10 THEN <<Digits[n + 1]>>
    ELSE ToDigits(n \div 10) \o <<Digits[(n % 10) + 1]>>

\* the texts of ts with sep between them
RECURSIVE Join(_, _)
Join(ts, sep) ==
    IF Len(ts) = 0 THEN <<>>
    ELSE IF Len(ts) = 1 THEN ts[1]
    ELSE ts[1] \o sep \o Join(Tail(ts), sep)

\* `original -> obfuscated:`
ClassLine(original, obfuscated) == original \o ARROW \o obfuscated \o <<":">>

\* `    [S:E:]type [class.]name[(args)][:os[:oe]] -> obfuscated`
MemberLine(d) ==
    INDENT
    \o (IF d.pre.some
        THEN ToDigits(d.pre.v[1]) \o <<":">> \o ToDigits(d.pre.v[2]) \o <<":">>
        ELSE <<>>)
    \o d.ty \o <<SP>>
    \o (IF d.oclass.some THEN d.oclass.v \o <<".">> ELSE <<>>)
    \o d.name
    \o (IF d.method THEN <<"(">> \o Join(d.args, <<",">>) \o <<")">> ELSE <<>>)
    \o (IF Len(d.suf) > 0 THEN <<":">> \o ToDigits(d.suf[1]) ELSE <<>>)
    \o (IF Len(d.suf) > 1 THEN <<":">> \o ToDigits(d.suf[2]) ELSE <<>>)
    \o ARROW \o d.alias

\* a member line whose line-number fields are given as text, so that they
\* need not be numbers
NumberedLine(d) ==
    INDENT
    \o (IF d.pre.some
        THEN d.pre.v[1] \o <<":">> \o d.pre.v[2] \o <<":">>
        ELSE <<>>)
    \o d.ty \o <<SP>>
    \o d.name
    \o (IF d.method THEN <<"(">> \o Join(d.args, <<",">>) \o <<")">> ELSE <<>>)
    \o (IF Len(d.suf) > 0 THEN <<":">> \o d.suf[1] ELSE <<>>)
    \o (IF Len(d.suf) > 1 THEN <<":">> \o d.suf[2] ELSE <<>>)
    \o ARROW \o d.alias

\* the text of a composed line
LineText(d) ==
    CASE d.kind = "class" -> ClassLine(d.original, d.obfuscated)
      [] d.kind = "member" -> MemberLine(d)
      [] d.kind = "numbered" -> NumberedLine(d)
      [] d.kind = "tokens" -> Join(d.tokens, <<SP>>)
      [] d.kind = "header" -> <<"#">> \o d.text
      [] OTHER -> d.text

SeqsUpTo(S, n) == UNION {[1..k -> S] : k \in 0..n}

\* line numbers written in grammar lines: small ones and a two-digit one
LineNos == (0..MaxLineNo) \cup {10 + MaxLineNo}

MemberDescs ==
    [kind : {"member"},
     method : BOOLEAN,
     pre : {None} \cup {Some(<<s, e>>) : s \in LineNos, e \in LineNos},
     ty : {<<"v">>},
     oclass : {None, Some(<<"p", ".", "C">>)},
     name : {<<"m">>},
     args : {<<>>, << <<"i">> >>, << <<"i">>, <<"j">> >>},
     suf : {<<>>, <<1>>, <<1, MaxLineNo>>},
     alias : {<<"x">>}]

Tokens == {<<>>, <<"A">>, <<"-", ">">>, <<"a", ":">>, <<":">>}
TokenDescs == [kind : {"tokens"}, tokens : SeqsUpTo(Tokens, MaxTokens) \ {<<>>}]

HeaderDescs ==
    [kind : {"header"},
     text : {<<>>, <<"k">>, <<SP, "k", ":", SP, "v", SP>>, <<"k", ":", "v", ":", "w">>}]

\* one more than usize::MAX and one more than u32::MAX, in decimal
TooBigForUsize == SubSeq(USIZE_MAX, 1, Len(USIZE_MAX) - 1) \o <<"6">>
TooBigForU32 == SubSeq(U32_MAX, 1, Len(U32_MAX) - 1) \o <<"6">>

\* texts in the place of a line number: a number, texts that are not numbers,
\* and a number that usize cannot hold
NumTexts == {<<"7">>, <<"x">>, <<"1", "x">>, <<>>, TooBigForUsize}

\* a leading prefix is one that begins with a decimal digit
NumberedDescs ==
    [kind : {"numbered"},
     method : BOOLEAN,
     pre : {None} \cup {Some(<<s, e>>) : s \in {t \in NumTexts : t # <<>> /\ IsDigit(t[1])},
                                        e \in NumTexts},
     ty : {<<"v">>},
     name : {<<"m">>},
     args : {<<>>},
     suf : {<<>>} \cup {<<s>> : s \in NumTexts}
                 \cup {<<s, e>> : s \in NumTexts, e \in NumTexts},
     alias : {<<"x">>}]

GrammarInputs == MemberDescs \cup TokenDescs \cup HeaderDescs \cup NumberedDescs

(***************************************************************************)
(* The grammar on its own: one line is drawn and classified.               *)
(***************************************************************************)
Idle ==
    /\ source = <<>> /\ slice = <<>> /\ line = <<>> /\ rest = <<>>
    /\ yielded = <<>> /\ backing = <<>> /\ cls = None /\ res = NoCall /\ rec = None

InitGrammar ==
    /\ input \in GrammarInputs
    /\ pc = "line"
    /\ Idle

TryParse ==
    /\ pc = "line"
    /\ rec' = try_parse(LineText(input))
    /\ pc' = "parsed"
    /\ UNCHANGED <<input, source, slice, line, rest, yielded, backing, cls, res>>

NextGrammar == TryParse

GrammarSpec == InitGrammar /\ [][NextGrammar]_vars

(***************************************************************************)
(* mapping.rs: MappingRecordIter, the record stream.                       *)
(***************************************************************************)
StreamTexts ==
    {<<>>,
     ClassLine(<<"A">>, <<"a">>),
     INDENT \o <<"T", SP, "f">> \o ARROW \o <<"x">>,
     <<"z", "z">>,
     <<"z", XFF>>}
Terminators == {<<LF>>, <<CR>>, <<CR, LF>>}

StreamInputs ==
    [kind : {"stream"},
     segs : SeqsUpTo([text : StreamTexts, term : Terminators], MaxSegs),
     tail : StreamTexts]

RECURSIVE SegsText(_)
SegsText(segs) ==
    IF Len(segs) = 0 THEN <<>>
    ELSE segs[1].text \o segs[1].term \o SegsText(Tail(segs))

StreamText(d) == SegsText(d.segs) \o d.tail

\* fn split inside MappingRecordIter::next
iter_split(s) ==
    LET i == FindIn(s, 0, {LF, CR}) IN
    IF i < Len(s) THEN <<Slice(s, 0, i), Slice(s, i, Len(s))>>
    ELSE <<s, <<>>>>

\* the item next() returns for a non-empty line
iter_item(l) ==
    LET m == try_parse(l) IN
    IF m.some THEN [ok |-> TRUE, v |-> m.v] ELSE [ok |-> FALSE, v |-> l]

InitStream ==
    /\ input \in StreamInputs
    /\ source = StreamText(input)
    /\ slice = source                  \* ProguardMapping::iter
    /\ line = <<>> /\ rest = <<>>
    /\ pc = "idle"
    /\ yielded = <<>>
    /\ backing = <<>> /\ cls = None /\ res = NoCall /\ rec = None

\* the caller calls next()
CallNext ==
    /\ pc = "idle"
    /\ pc' = "split"
    /\ UNCHANGED <<input, source, slice, line, rest, yielded, backing, cls, res, rec>>

\* top of the loop: `let (line, rest) = split(self.slice); self.slice = rest;`
IterSplit ==
    /\ pc = "split"
    /\ line' = iter_split(slice)[1]
    /\ rest' = iter_split(slice)[2]
    /\ slice' = iter_split(slice)[2]
    /\ pc' = "test"
    /\ UNCHANGED <<input, source, yielded, backing, cls, res, rec>>

\* the two tests of the loop body: return None, return Some(item), or loop
IterTest ==
    /\ pc = "test"
    /\ IF rest = <<>>
       THEN pc' = "done" /\ yielded' = yielded
       ELSE IF line # <<>>
       THEN pc' = "idle" /\ yielded' = Append(yielded, iter_item(line))
       ELSE pc' = "split" /\ yielded' = yielded
    /\ UNCHANGED <<input, source, slice, line, rest, backing, cls, res, rec>>

NextStream == CallNext \/ IterSplit \/ IterTest

StreamSpec == InitStream /\ [][NextStream]_vars

\* the caller keeps calling next() and the loop keeps running
FairStreamSpec == StreamSpec /\ WF_vars(NextStream)

(***************************************************************************)
(* parser.rs: the three regular expressions.  Each starts with (?m)^, so a *)
(* match starts at a line start; from there every repetition is followed   *)
(* by a byte it cannot itself match, which leaves one way to match.        *)
(* A match is [start, end, g]: the offsets of group 0 and, per capture     *)
(* group, None or its <<start, end>> offsets.                              *)
(***************************************************************************)
\* (?m)^ at offset p
line_start(buf, p) == p = 0 \/ buf[p] = LF

\* (?:\r?\n|$) at offset e: the offset after it, -1 when it does not match
end_of_line(buf, e) ==
    IF e + 1 < Len(buf) /\ buf[e + 1] = CR /\ buf[e + 2] = LF THEN e + 2
    ELSE IF e < Len(buf) /\ buf[e + 1] = LF THEN e + 1
    ELSE IF e = Len(buf) THEN e
    ELSE -1

\* the literal lit at offset p
literal_at(buf, p, lit) ==
    p + Len(lit) <= Len(buf) /\ SubSeq(buf, p + 1, p + Len(lit)) = lit

\* ^([\S]+) -> ([\S]+?):(?:\r?\n|$)
CLASS_LINE_RE(buf, p) ==
    LET a == FindIn(buf, p, Whitespace)
        b == FindIn(buf, a + 4, Whitespace)
        e == end_of_line(buf, b)
    IN IF /\ a > p
          /\ literal_at(buf, a, ARROW)
          /\ b > a + 5
          /\ buf[b] = ":"
          /\ e >= 0
       THEN Some([start |-> p, end |-> e,
                  g |-> <<Some(<<p, a>>), Some(<<a + 4, b - 1>>)>>])
       ELSE None

\* ^    ([\S]+) ([\S]+?) -> ([\S]+)(?:\r?\n|$)
FIELD_RE(buf, p) ==
    LET a == FindIn(buf, p + 4, Whitespace)
        b == FindIn(buf, a + 1, Whitespace)
        c == FindIn(buf, b + 4, Whitespace)
        e == end_of_line(buf, c)
    IN IF /\ literal_at(buf, p, INDENT)
          /\ a > p + 4
          /\ literal_at(buf, a, <<SP>>)
          /\ b > a + 1
          /\ literal_at(buf, b, ARROW)
          /\ c > b + 4
          /\ e >= 0
       THEN Some([start |-> p, end |-> e,
                  g |-> <<Some(<<p + 4, a>>), Some(<<a + 1, b>>), Some(<<b + 4, c>>)>>])
       ELSE None

\* (?:(\d+):(\d+):)? at offset q: None, or the two groups
method_prefix(buf, q) ==
    LET d1 == FindNotIn(buf, q, DigitSet)
        d2 == FindNotIn(buf, d1 + 1, DigitSet)
    IN IF /\ d1 > q /\ literal_at(buf, d1, <<":">>)
          /\ d2 > d1 + 1 /\ literal_at(buf, d2, <<":">>)
       THEN Some(<<Some(<<q, d1>>), Some(<<d1 + 1, d2>>)>>)
       ELSE None

\* ([^ ]+) ([^\(]+?)\(([^\)]*?)\) -> ([\S]+)(?:\r?\n|$) at offset s, the match
\* having started at p with the prefix groups pre
method_body(buf, p, s, pre) ==
    LET sp == FindIn(buf, s, {SP})
        lp == FindIn(buf, sp + 1, {"("})
        rp == FindIn(buf, lp + 1, {")"})
        c == FindIn(buf, rp + 5, Whitespace)
        e == end_of_line(buf, c)
    IN IF /\ sp > s /\ sp < Len(buf)
          /\ lp > sp + 1 /\ lp < Len(buf)
          /\ rp < Len(buf)
          /\ literal_at(buf, rp + 1, ARROW)
          /\ c > rp + 5
          /\ e >= 0
       THEN Some([start |-> p, end |-> e,
                  g |-> pre \o <<Some(<<s, sp>>), Some(<<sp + 1, lp>>),
                                 Some(<<lp + 1, rp>>), Some(<<rp + 5, c>>)>>])
       ELSE None

\* ^    (?:(\d+):(\d+):)?([^ ]+) ([^\(]+?)\(([^\)]*?)\) -> ([\S]+)(?:\r?\n|$)
METHOD_RE(buf, p) ==
    IF ~literal_at(buf, p, INDENT) THEN None
    ELSE LET pre == method_prefix(buf, p + 4)
             with == IF pre.some
                     THEN method_body(buf, p, pre.v[2].v[2] + 1, pre.v)
                     ELSE None
         IN IF with.some THEN with
            ELSE method_body(buf, p, p + 4, <<None, None>>)

regex_at(re, buf, p) ==
    CASE re = "CLASS_LINE_RE" -> CLASS_LINE_RE(buf, p)
      [] re = "FIELD_RE" -> FIELD_RE(buf, p)
      [] re = "METHOD_RE" -> METHOD_RE(buf, p)

\* the leftmost match that starts at or after offset p
RECURSIVE regex_find_at(_, _, _)
regex_find_at(re, buf, p) ==
    IF p >= Len(buf) THEN None
    ELSE LET m == IF line_start(buf, p) THEN regex_at(re, buf, p) ELSE None IN
         IF m.some THEN m
         ELSE regex_find_at(re, buf, FindIn(buf, p, {LF}) + 1)

\* Regex::captures_iter: the successive non-overlapping matches
\* m is the match the iterator found last, None when it found no more
RECURSIVE captures_from(_, _, _)
captures_from(re, buf, m) ==
    IF ~m.some THEN <<>>
    ELSE <<m.v>> \o captures_from(re, buf, regex_find_at(re, buf, m.v.end))

captures_iter(re, buf) == captures_from(re, buf, regex_find_at(re, buf, 0))

\* caps.get(i).as_bytes()
group(buf, caps, i) == Slice(buf, caps.g[i].v[1], caps.g[i].v[2])

(***************************************************************************)
(* parser.rs: MappingView and Class.                                       *)
(***************************************************************************)
\* the index of the first element of ms that satisfies the test Keep; 0 if none
FirstIndex(ms, Keep) ==
    IF Keep = {} THEN 0 ELSE CHOOSE i \in Keep : \A j \in Keep : i <= j

\* class_alias_matches comparing the wrong capture group
class_alias_matches_name(buf, caps, alias) == group(buf, caps, 1) = alias

\* `&caps[2] != alias.as_bytes()` of find_class, negated
class_alias_matches(buf, caps, alias) == group(buf, caps, 2) = alias

\* class_span that never looks for the next class line
class_span_to_end(buf, ms, i) ==
    [buf_start |-> ms[i].end, buf_end |-> Len(buf)]

\* buf_start and buf_end of the class found as match i of ms
class_span(buf, ms, i) ==
    [buf_start |-> ms[i].end,
     buf_end |-> IF i < Len(ms) THEN ms[i + 1].start ELSE Len(buf)]

\* MappingView::find_class; the Class keeps its span as offsets into the buffer
class_found(buf, ms, i) ==
    [alias |-> group(buf, ms[i], 2),
     class_name |-> group(buf, ms[i], 1),
     buf_start |-> class_span(buf, ms, i).buf_start,
     buf_end |-> class_span(buf, ms, i).buf_end]

\* the loop of find_class over the matches ms of CLASS_LINE_RE
first_class(buf, alias, ms) ==
    LET i == FirstIndex(ms, {j \in 1..Len(ms) : class_alias_matches(buf, ms[j], alias)})
    IN IF i = 0 THEN None ELSE Some(class_found(buf, ms, i))

find_class(buf, alias) == first_class(buf, alias, captures_iter("CLASS_LINE_RE", buf))

\* Class.buf
class_buf(buf, c) == Slice(buf, c.buf_start, c.buf_end)

\* MappingView::has_line_info
has_line_info(buf) ==
    LET ms == captures_iter("METHOD_RE", buf) IN
    \E i \in 1..Len(ms) : ms[i].g[1].some

\* Class::get_field; ty_at and alias_end are where the returned slices lie in
\* the mapping's buffer
field_info(b, c, caps) ==
    [ty |-> group(b, caps, 1),
     name |-> group(b, caps, 2),
     alias |-> group(b, caps, 3),
     ty_at |-> c.buf_start + caps.g[1].v[1],
     alias_end |-> c.buf_start + caps.g[3].v[2]]

\* the loop of get_field over the matches ms of FIELD_RE in the span b
first_field(b, c, alias, ms) ==
    LET i == FirstIndex(ms, {j \in 1..Len(ms) : group(b, ms[j], 3) = alias})
    IN IF i = 0 THEN None ELSE Some(field_info(b, c, ms[i]))

get_field(buf, c, alias) ==
    first_field(class_buf(buf, c), c, alias, captures_iter("FIELD_RE", class_buf(buf, c)))

\* from_line / to_line: `caps.get(i).and_then(from_utf8).and_then(parse).unwrap_or(0)`
line_or_zero(b, caps, i) ==
    IF ~caps.g[i].some THEN 0
    ELSE IF ~is_utf8(group(b, caps, i)) THEN 0
    ELSE LET n == parse_u32(group(b, caps, i)) IN IF n.some THEN n.v ELSE 0

\* `lineno_range` of the MethodInfo
lineno_range(from_line, to_line) ==
    IF from_line > 0 /\ to_line > 0 THEN Some(<<from_line, to_line>>) ELSE None

\* the MethodInfo built from one match; return_value_at and alias_end are where
\* the returned slices lie in the mapping's buffer
method_info(b, c, caps) ==
    [alias |-> group(b, caps, 6),
     return_value |-> group(b, caps, 3),
     args |-> split(group(b, caps, 5), ","),
     method_name |-> group(b, caps, 4),
     lineno_range |-> lineno_range(line_or_zero(b, caps, 1), line_or_zero(b, caps, 2)),
     return_value_at |-> c.buf_start + caps.g[3].v[1],
     alias_end |-> c.buf_start + caps.g[6].v[2]]

\* Option<u32>::unwrap_or(0)
unwrap_or_0(lineno) == IF lineno.some THEN lineno.v ELSE 0

\* MethodInfo::first_line
first_line(m) == IF m.lineno_range.some THEN m.lineno_range.v[1] ELSE 0

\* last_line reading the end of the range
last_line_of_range(m) == IF m.lineno_range.some THEN m.lineno_range.v[2] ELSE 0

\* MethodInfo::last_line
last_line(m) == IF m.lineno_range.some THEN m.lineno_range.v[1] ELSE 0

Min(a, b) == IF a <= b THEN a ELSE b
Abs(a) == IF a < 0 THEN -a ELSE a

\* MethodInfo::line_diff
line_diff(m, lineno) == Abs(Min(first_line(m), last_line(m)) - unwrap_or_0(lineno))

\* matches_line with the range start excluded
matches_line_exclusive(m, lineno) ==
    IF m.lineno_range.some
    THEN \/ unwrap_or_0(lineno) = 0
         \/ /\ m.lineno_range.v[1] < unwrap_or_0(lineno)
            /\ unwrap_or_0(lineno) <= m.lineno_range.v[2]
         \/ m.lineno_range.v[2] = 0
    ELSE TRUE

\* MethodInfo::matches_line
matches_line(m, lineno) ==
    IF m.lineno_range.some
    THEN \/ unwrap_or_0(lineno) = 0
         \/ /\ m.lineno_range.v[1] <= unwrap_or_0(lineno)
            /\ unwrap_or_0(lineno) <= m.lineno_range.v[2]
         \/ m.lineno_range.v[2] = 0
    ELSE TRUE

\* Vec::sort_by_key(|x| x.line_diff(lineno)): a stable sort
RECURSIVE sort_by_line_diff(_, _)
sort_by_line_diff(ms, lineno) ==
    IF Len(ms) <= 1 THEN ms
    ELSE LET sorted == sort_by_line_diff(SubSeq(ms, 1, Len(ms) - 1), lineno)
             x == ms[Len(ms)]
             k == Cardinality({j \in 1..Len(sorted) :
                                 line_diff(sorted[j], lineno) <= line_diff(x, lineno)})
         IN SubSeq(sorted, 1, k) \o <<x>> \o SubSeq(sorted, k + 1, Len(sorted))

\* the methods get_methods pushes to rv, before the sort
method_candidates(buf, c, alias) ==
    LET b == class_buf(buf, c)
        ms == captures_iter("METHOD_RE", b)
        hits == SelectSeq(ms, LAMBDA caps : group(b, caps, 6) = alias)
    IN [i \in 1..Len(hits) |-> method_info(b, c, hits[i])]

\* Class::get_methods
get_methods(buf, c, alias, lineno) ==
    sort_by_line_diff(
        SelectSeq(method_candidates(buf, c, alias), LAMBDA m : matches_line(m, lineno)),
        lineno)

\* MethodInfo::args, then Args::next until it returns None
RECURSIVE args_next_all(_, _)
args_next_all(args, idx) ==
    IF idx >= Len(args) THEN <<>>
    ELSE IF is_utf8(args[idx + 1])
         THEN <<args[idx + 1]>> \o args_next_all(args, idx + 1)
         ELSE args_next_all(args, idx + 1)

method_args(m) == args_next_all(m.args, 0)

(***************************************************************************)
(* Lookup: a document is drawn, then classes, fields and methods are       *)
(* looked up in it.                                                        *)
(***************************************************************************)
ClassDesc(original, obfuscated) ==
    [kind |-> "class", original |-> original, obfuscated |-> obfuscated]
FieldDesc(ty, name, alias) ==
    [kind |-> "member", method |-> FALSE, pre |-> None, ty |-> ty, oclass |-> None,
     name |-> name, args |-> <<>>, suf |-> <<>>, alias |-> alias]
MethodDesc(pre, ty, name, args, alias) ==
    [kind |-> "member", method |-> TRUE, pre |-> pre, ty |-> ty, oclass |-> None,
     name |-> name, args |-> args, suf |-> <<>>, alias |-> alias]
\* a method line whose leading range is given as text
NumberedMethodDesc(pre, ty, name, args, alias) ==
    [kind |-> "numbered", method |-> TRUE, pre |-> pre, ty |-> ty,
     name |-> name, args |-> args, suf |-> <<>>, alias |-> alias]

LookupLines ==
    {ClassDesc(<<"A">>, <<"a">>),
     ClassDesc(<<"B">>, <<"a">>),
     ClassDesc(<<"C">>, <<"b">>),
     FieldDesc(<<"T">>, <<"f">>, <<"x">>),
     MethodDesc(Some(<<1, 2>>), <<"v">>, <<"m">>, <<>>, <<"x">>),
     MethodDesc(Some(<<4, 4>>), <<"v">>, <<"n">>, << <<"i">>, <<"j">> >>, <<"x">>),
     MethodDesc(None, <<"v">>, <<"p">>, << <<"i">> >>, <<"y">>),
     MethodDesc(Some(<<0, 3>>), <<"v">>, <<"q">>, <<>>, <<"y">>),
     MethodDesc(Some(<<3, 1>>), <<"v">>, <<"r">>, <<>>, <<"x">>),
     [MethodDesc(Some(<<1, 2>>), <<"v">>, <<"s">>, <<>>, <<"y">>) EXCEPT !.suf = <<1, 2>>],
     NumberedMethodDesc(Some(<<TooBigForU32, TooBigForU32>>),
                        <<"v">>, <<"o">>, <<>>, <<"x">>)}

ClassAliases == {<<"a">>, <<"b">>}
MemberAliases == {<<"x">>, <<"y">>}
Linenos == {None} \cup {Some(n) : n \in 0..MaxQuery}

LookupInputs ==
    [kind : {"doc"},
     lines : SeqsUpTo(LookupLines, MaxDocLines),
     crlf : BOOLEAN,
     eol : BOOLEAN]

\* the document: the lines, each but the last followed by the line ending,
\* the last one only if eol
DocText(lines, crlf, eol) ==
    LET nl == IF crlf THEN <<CR, LF>> ELSE <<LF>> IN
    Join([i \in 1..Len(lines) |-> LineText(lines[i])], nl)
    \o (IF eol /\ Len(lines) > 0 THEN nl ELSE <<>>)

InitLookup ==
    /\ input \in LookupInputs
    /\ backing = DocText(input.lines, input.crlf, input.eol)   \* MappingView::from_slice
    /\ cls = None
    /\ res = NoCall
    /\ pc = "view"
    /\ source = <<>> /\ slice = <<>> /\ line = <<>> /\ rest = <<>>
    /\ yielded = <<>> /\ rec = None

\* the caller looks a class up
FindClass(alias) ==
    /\ pc = "view"
    /\ cls' = find_class(backing, alias)
    /\ res' = [op |-> "find_class", alias |-> alias]
    /\ pc' = "class"
    /\ UNCHANGED <<input, source, slice, line, rest, yielded, backing, rec>>

\* the caller looks a field up in the class it found
GetField(alias) ==
    /\ pc = "class"
    /\ cls.some
    /\ res' = [op |-> "get_field", alias |-> alias,
               v |-> get_field(backing, cls.v, alias)]
    /\ pc' = "looked"
    /\ UNCHANGED <<input, source, slice, line, rest, yielded, backing, cls, rec>>

\* the caller looks methods up in the class it found
GetMethods(alias, lineno) ==
    /\ pc = "class"
    /\ cls.some
    /\ res' = [op |-> "get_methods", alias |-> alias, lineno |-> lineno,
               v |-> get_methods(backing, cls.v, alias, lineno)]
    /\ pc' = "looked"
    /\ UNCHANGED <<input, source, slice, line, rest, yielded, backing, cls, rec>>

\* the caller asks whether the mapping has line information
HasLineInfo ==
    /\ pc = "view"
    /\ res' = [op |-> "has_line_info", v |-> has_line_info(backing)]
    /\ pc' = "looked"
    /\ UNCHANGED <<input, source, slice, line, rest, yielded, backing, cls, rec>>

NextLookup ==
    \/ \E alias \in ClassAliases : FindClass(alias)
    \/ \E alias \in MemberAliases : GetField(alias)
    \/ \E alias \in MemberAliases, lineno \in Linenos : GetMethods(alias, lineno)
    \/ HasLineInfo

LookupSpec == InitLookup /\ [][NextLookup]_vars

(***************************************************************************)
(* The whole program: a run is a parse of one line, a stream over one      *)
(* document, or lookups in one document.                                   *)
(***************************************************************************)
Init == InitGrammar \/ InitStream \/ InitLookup

Next == NextGrammar \/ NextStream \/ NextLookup

Spec == Init /\ [][Next]_vars

(***************************************************************************)
(* Claims about the record stream.                                         *)
(***************************************************************************)
\* what the stream should yield: one item per non-empty line, in order
ExpectedItems(d) ==
    LET texts == [i \in 1..Len(d.segs) |-> d.segs[i].text] \o <<d.tail>>
    IN [i \in 1..Len(SelectSeq(texts, LAMBDA t : t # <<>>))
            |-> iter_item(SelectSeq(texts, LAMBDA t : t # <<>>)[i])]

\* C1: over any finite document every call to next() returns, and after
\* finitely many calls next() returns None.
C1_StreamEnds == <>(pc = "done")

\* C2: when the stream has ended it has yielded exactly one item per non-empty
\* line of the document, in document order, the final unterminated line
\* included; until then what it has yielded is a prefix of that.
C2_OneItemPerLine ==
    /\ Len(yielded) <= Len(ExpectedItems(input))
    /\ yielded = SubSeq(ExpectedItems(input), 1, Len(yielded))
    /\ pc = "done" => yielded = ExpectedItems(input)

(***************************************************************************)
(* Claims about the grammar.                                               *)
(***************************************************************************)
IsMethodInput == pc = "parsed" /\ input.kind = "member" /\ input.method

\* the Method record of a parsed line carries line mapping S..E
HasLineMapping(r, S, E) ==
    /\ r.some /\ r.v.kind = "Method"
    /\ r.v.line_mapping.some
    /\ r.v.line_mapping.v.startline = S
    /\ r.v.line_mapping.v.endline = E

\* the Method record of a parsed line carries no line mapping
HasNoLineMapping(r) ==
    r.some /\ r.v.kind = "Method" /\ r.v.line_mapping = None

\* C7 (as claimed): a method line with a leading S:E: prefix, for any unsigned
\* S and E, yields a Method whose line_mapping is present with startline = S
\* and endline = E; without the prefix line_mapping is None, whatever the
\* trailing suffix.
C7_AnyPrefixIsKept ==
    IsMethodInput =>
        IF input.pre.some
        THEN HasLineMapping(rec, input.pre.v[1], input.pre.v[2])
        ELSE HasNoLineMapping(rec)

\* C7 (amended): a method line with a leading S:E: prefix with S > 0 yields a
\* Method whose line_mapping is present with startline = S and endline = E; with
\* S = 0 the line_mapping is None; without the prefix line_mapping is None,
\* whatever the trailing suffix.
C7_PositivePrefixIsKept ==
    IsMethodInput =>
        IF input.pre.some /\ input.pre.v[1] > 0
        THEN HasLineMapping(rec, input.pre.v[1], input.pre.v[2])
        ELSE HasNoLineMapping(rec)

C7_Witness ==
    /\ IsMethodInput
    /\ input.pre.some /\ input.pre.v[1] > 9 /\ input.pre.v[2] = 0
    /\ Len(input.suf) = 2
    /\ HasLineMapping(rec, input.pre.v[1], 0)

HasSpace(t) == \E i \in 1..Len(t) : t[i] = SP

\* C8: every Class record has a non-empty original name and a non-empty
\* obfuscated alias, neither containing a space; a line that is neither a
\* header nor indented, whose second token is not `->`, whose last character
\* is not ':', or which has an empty token, is Unparsable.
C8_ClassTokensNonEmpty ==
    pc = "parsed" =>
        /\ (rec.some /\ rec.v.kind = "Class") =>
              /\ rec.v.original # <<>> /\ ~HasSpace(rec.v.original)
              /\ rec.v.obfuscated # <<>> /\ ~HasSpace(rec.v.obfuscated)
        /\ ( /\ input.kind = "tokens"
             /\ ~starts_with(LineText(input), INDENT)
             /\ \/ Len(input.tokens) < 2
                \/ input.tokens[2] # <<"-", ">">>
                \/ ~ends_with(LineText(input), ":")
                \/ \E i \in 1..Len(input.tokens) : input.tokens[i] = <<>>
                \/ input.tokens[Len(input.tokens)] = <<":">> )
           => rec = None

(***************************************************************************)
(* Claims about lookup.  What a lookup should find is read off the lines   *)
(* the document was composed from.                                         *)
(***************************************************************************)
NlLen == IF input.crlf THEN 2 ELSE 1

\* offset of the first byte of line i; Len(backing) for the line after the last
RECURSIVE LineOffset(_)
LineOffset(i) ==
    IF i <= 1 THEN 0
    ELSE IF i > Len(input.lines) THEN Len(backing)
    ELSE LineOffset(i - 1) + Len(LineText(input.lines[i - 1])) + NlLen

\* the line that holds the byte at offset off
LineOf(off) ==
    CHOOSE i \in 1..Len(input.lines) : LineOffset(i) <= off /\ off < LineOffset(i + 1)

IsClassDecl(i) == input.lines[i].kind = "class"
IsMemberLine(i) == input.lines[i].kind \in {"member", "numbered"}
IsFieldLine(i) == IsMemberLine(i) /\ ~input.lines[i].method
IsMethodLine(i) == IsMemberLine(i) /\ input.lines[i].method

\* the least element of a set of line numbers, 0 for the empty set
Least(S) == IF S = {} THEN 0 ELSE CHOOSE i \in S : \A j \in S : i <= j

\* the first class-declaration line with this obfuscated alias, 0 if none
FirstClassLine(alias) ==
    Least({i \in 1..Len(input.lines) :
              IsClassDecl(i) /\ input.lines[i].obfuscated = alias})

\* the line that ends the body of the class declared on line i: the next
\* class-declaration line, or the line after the last
BodyEnd(i) ==
    LET n == Least({j \in (i + 1)..Len(input.lines) : IsClassDecl(j)})
    IN IF n = 0 THEN Len(input.lines) + 1 ELSE n

\* C3: find_class returns the first class-declaration line, in document order,
\* whose obfuscated alias equals the query (also among several with that
\* alias), with that line's original name as class_name and the query as
\* alias; it returns None exactly when no class-declaration line has the alias.
C3_FindsFirstDeclaration ==
    res.op = "find_class" =>
        LET i == FirstClassLine(res.alias) IN
        IF i = 0 THEN cls = None
        ELSE /\ cls.some
             /\ cls.v.class_name = input.lines[i].original
             /\ cls.v.alias = res.alias
             /\ cls.v.buf_start = LineOffset(i + 1)

C3_Witness ==
    /\ res.op = "find_class" /\ cls.some
    /\ Len(input.lines) = 3
    /\ FirstClassLine(res.alias) = 2
    /\ IsClassDecl(1)
    /\ IsClassDecl(3) /\ input.lines[3].obfuscated = res.alias
    /\ input.lines[3].original # input.lines[2].original
    /\ cls.v.class_name = input.lines[2].original

\* the bytes from offset from up to offset to all lie on member lines of the
\* body of the class declared on line i
InBody(i, from, to) ==
    /\ i < LineOf(from) /\ LineOf(to - 1) < BodyEnd(i)
    /\ \A k \in LineOf(from)..LineOf(to - 1) : IsMemberLine(k)

\* C4: the body span of a class returned by find_class begins right after the
\* terminator of its declaration line and ends at the start of the next
\* class-declaration line, or at the end of the document; get_field and
\* get_methods return only records taken from member lines inside that span.
C4_SpanIsClassBody ==
    cls.some =>
        LET i == FirstClassLine(cls.v.alias) IN
        /\ i > 0
        /\ cls.v.buf_start = LineOffset(i + 1)
        /\ cls.v.buf_end = LineOffset(BodyEnd(i))
        /\ (res.op = "get_field" /\ res.v.some)
              => InBody(i, res.v.v.ty_at, res.v.v.alias_end)
        /\ res.op = "get_methods"
              => \A k \in 1..Len(res.v) :
                    InBody(i, res.v[k].return_value_at, res.v[k].alias_end)

C4_Witness ==
    /\ cls.some
    /\ FirstClassLine(cls.v.alias) = 1
    /\ BodyEnd(1) = 3
    /\ res.op = "get_methods" /\ Len(res.v) = 1
    /\ cls.v.buf_end < Len(backing)

\* a candidate is kept for a queried line, as claimed
KeptAsClaimed(m, lineno) ==
    \/ ~lineno.some
    \/ ~m.lineno_range.some
    \/ m.lineno_range.v[1] <= lineno.v /\ lineno.v <= m.lineno_range.v[2]

\* a candidate is kept for a queried line: a queried line of 0 counts as absent
KeptOrZero(m, lineno) ==
    \/ ~lineno.some
    \/ lineno.v = 0
    \/ ~m.lineno_range.some
    \/ m.lineno_range.v[1] <= lineno.v /\ lineno.v <= m.lineno_range.v[2]

Returned(m) == \E r \in 1..Len(res.v) : res.v[r] = m

\* the candidates all carry ranges, pairwise disjoint, and the queried line
\* lies inside the range of exactly one of them
OneRangeHolds(cands, lineno) ==
    /\ lineno.some
    /\ \A k \in 1..Len(cands) : cands[k].lineno_range.some
    /\ \A k, l \in 1..Len(cands) :
          k # l => \/ cands[k].lineno_range.v[2] < cands[l].lineno_range.v[1]
                   \/ cands[l].lineno_range.v[2] < cands[k].lineno_range.v[1]
    /\ Cardinality({k \in 1..Len(cands) :
                      /\ cands[k].lineno_range.v[1] <= lineno.v
                      /\ lineno.v <= cands[k].lineno_range.v[2]}) = 1

\* C5 (as claimed): get_methods returns a candidate with the queried alias if
\* and only if the queried line is absent, or the candidate has no line range,
\* or startline <= line <= endline, for every queried line including 0.
C5_KeptIffInRange ==
    res.op = "get_methods" =>
        LET cands == method_candidates(backing, cls.v, res.alias) IN
        /\ \A r \in 1..Len(res.v) : \E k \in 1..Len(cands) : cands[k] = res.v[r]
        /\ \A k \in 1..Len(cands) :
              Returned(cands[k]) <=> KeptAsClaimed(cands[k], res.lineno)

\* C5 (amended): get_methods returns a candidate with the queried alias if and
\* only if the queried line is absent or 0, or the candidate has no line range
\* (no S:E: prefix, or S or E is 0 or too big for u32), or startline <= line <= endline; when all
\* candidates carry pairwise disjoint ranges and the queried line lies inside
\* exactly one, the result is that single candidate.
C5_KeptIffInRangeOrZero ==
    res.op = "get_methods" =>
        LET cands == method_candidates(backing, cls.v, res.alias) IN
        /\ \A r \in 1..Len(res.v) : \E k \in 1..Len(cands) : cands[k] = res.v[r]
        /\ \A k \in 1..Len(cands) :
              /\ cands[k].alias = res.alias
              /\ Returned(cands[k]) <=> KeptOrZero(cands[k], res.lineno)
        /\ OneRangeHolds(cands, res.lineno) =>
              /\ Len(res.v) = 1
              /\ res.v[1].lineno_range.v[1] <= res.lineno.v
              /\ res.lineno.v <= res.v[1].lineno_range.v[2]

C5_Witness ==
    /\ res.op = "get_methods"
    /\ Len(method_candidates(backing, cls.v, res.alias)) = 2
    /\ OneRangeHolds(method_candidates(backing, cls.v, res.alias), res.lineno)
    /\ Len(res.v) = 1
    /\ res.v[1].lineno_range = Some(<<4, 4>>)

\* the first field line of the body of the class on line i with this alias
FirstFieldLine(i, alias) ==
    Least({k \in (i + 1)..(BodyEnd(i) - 1) :
              IsFieldLine(k) /\ input.lines[k].alias = alias})

\* C6: get_field returns the first field line of the span whose obfuscated
\* alias equals the query, with that line's type and original name; it never
\* returns a record built from a method line, and returns None when no field
\* line of the span has that alias.
C6_FirstFieldLine ==
    res.op = "get_field" =>
        LET k == FirstFieldLine(FirstClassLine(cls.v.alias), res.alias) IN
        IF k = 0 THEN res.v = None
        ELSE /\ res.v.some
             /\ res.v.v.ty = input.lines[k].ty
             /\ res.v.v.name = input.lines[k].name
             /\ res.v.v.alias = res.alias
             /\ LineOf(res.v.v.ty_at) = k

\* what a lookup result says, without where its slices lie in the buffer
FieldSays(f) ==
    IF f.some THEN <<f.v.ty, f.v.name, f.v.alias>> ELSE <<>>
MethodsSay(ms) ==
    [k \in 1..Len(ms) |-> <<ms[k].return_value, ms[k].method_name, ms[k].args,
                            ms[k].alias, ms[k].lineno_range>>]
ClassSays(c) ==
    IF c.some THEN <<c.v.class_name, c.v.alias>> ELSE <<>>

HasCR(t) == \E i \in 1..Len(t) : t[i] = CR

\* C9: a document with LF line endings and the same document with CRLF line
\* endings give the same find_class, get_field, get_methods and has_line_info
\* results, and no returned name or alias holds a '\r'.
C9_LineEndingsInterchangeable ==
    LET crlf == DocText(input.lines, TRUE, input.eol)
        c2 == find_class(crlf, cls.v.alias)
    IN
    /\ (res.op = "find_class" /\ ~input.crlf)
          => ClassSays(cls) = ClassSays(find_class(crlf, res.alias))
    /\ (res.op = "has_line_info" /\ ~input.crlf)
          => res.v = has_line_info(crlf)
    /\ (res.op = "get_field" /\ ~input.crlf)
          => c2.some /\ FieldSays(res.v) = FieldSays(get_field(crlf, c2.v, res.alias))
    /\ (res.op = "get_methods" /\ ~input.crlf)
          => /\ c2.some
             /\ MethodsSay(res.v)
                  = MethodsSay(get_methods(crlf, c2.v, res.alias, res.lineno))
    /\ cls.some => ~HasCR(cls.v.class_name) /\ ~HasCR(cls.v.alias)
    /\ (res.op = "get_field" /\ res.v.some)
          => ~HasCR(res.v.v.ty) /\ ~HasCR(res.v.v.name) /\ ~HasCR(res.v.v.alias)
    /\ res.op = "get_methods"
          => \A k \in 1..Len(res.v) :
                /\ ~HasCR(res.v[k].method_name) /\ ~HasCR(res.v[k].return_value)
                /\ ~HasCR(res.v[k].alias)

\* C10: the argument iterator of a returned method yields one term per
\* comma-separated argument written between the parentheses of the method
\* line, in order, and no term for a method declared with `()`.
C10_OneTermPerArgument ==
    res.op = "get_methods" =>
        \A k \in 1..Len(res.v) :
            method_args(res.v[k]) = input.lines[LineOf(res.v[k].alias_end - 1)].args

(***************************************************************************)
(* Claims about line numbers that are not numbers.                         *)
(***************************************************************************)
\* t is a decimal number that usize can hold (of the texts drawn here, one
\* only is too big)
IsLineNumber(t) ==
    /\ t # <<>> /\ \A i \in 1..Len(t) : IsDigit(t[i])
    /\ t # TooBigForUsize

\* t is a decimal number that u32 can hold
IsRangeNumber(t) ==
    /\ t # <<>> /\ \A i \in 1..Len(t) : IsDigit(t[i])
    /\ t # TooBigForU32

\* some line-number field of the composed member line d is not a number
HasBadNumber(d) ==
    \/ d.pre.some /\ (~IsLineNumber(d.pre.v[1]) \/ ~IsLineNumber(d.pre.v[2]))
    \/ \E i \in 1..Len(d.suf) : ~IsLineNumber(d.suf[i])

\* the grammar half of C11: a member line, field or method, whose leading
\* prefix or trailing suffix holds a text that is not a representable number
\* is Unparsable, and one whose numbers are all good is a record
C11_GrammarRejectsBadNumbers ==
    (pc = "parsed" /\ input.kind = "numbered") =>
        (HasBadNumber(input) <=> rec = None)

\* C11: a line-number field that cannot be parsed is never replaced by a
\* default; in lookup, get_methods returns no method built from a line whose
\* leading range text fails to parse, with an unknown range that matches every
\* queried line.
C11_BadRangeNotReturned ==
    res.op = "get_methods" =>
        \A k \in 1..Len(res.v) :
            LET d == input.lines[LineOf(res.v[k].alias_end - 1)] IN
            ~ /\ d.kind = "numbered" /\ d.pre.some
              /\ ~IsRangeNumber(d.pre.v[1]) \/ ~IsRangeNumber(d.pre.v[2])
              /\ res.v[k].lineno_range = None

(***************************************************************************)
(* Claims about the order of the methods returned.                         *)
(***************************************************************************)
\* the distance between the queried line (0 when absent) and the start of the
\* range of m (0 when m has no range)
StartDistance(m, lineno) ==
    Abs((IF m.lineno_range.some THEN m.lineno_range.v[1] ELSE 0)
        - (IF lineno.some THEN lineno.v ELSE 0))

GrammarRecord(k) == try_parse(LineText(input.lines[k]))

\* the lines of the body of the class declared on line i that the grammar
\* classifies as Method records with this obfuscated alias, in document order
GrammarMethodLines(i, alias) ==
    SelectSeq([j \in 1..(BodyEnd(i) - i - 1) |-> i + j],
              LAMBDA k : /\ GrammarRecord(k).some
                         /\ GrammarRecord(k).v.kind = "Method"
                         /\ GrammarRecord(k).v.obfuscated = alias)

\* the candidate m is built from line k alone and carries the return type,
\* the argument text and the leading range of the grammar's record of line k
BuiltFromLine(m, k) ==
    /\ LineOf(m.return_value_at) = k
    /\ LineOf(m.alias_end - 1) = k
    /\ m.return_value = GrammarRecord(k).v.ty
    /\ Join(m.args, <<",">>) = GrammarRecord(k).v.arguments
    /\ m.lineno_range =
          IF GrammarRecord(k).v.line_mapping.some
          THEN Some(<<GrammarRecord(k).v.line_mapping.v.startline,
                      GrammarRecord(k).v.line_mapping.v.endline>>)
          ELSE None

\* C13: lookup and grammar agree on method lines: the candidates get_methods
\* considers for an alias are exactly the lines of the class body that the
\* grammar classifies as Method records with that alias, lines with a trailing
\* :os:oe suffix included; each candidate is built from one single line and has
\* the return type, argument text and leading range of the grammar's record.
\* (Lines whose range u32 cannot hold are the matter of C11 and are left out.)
C13_LookupAgreesWithGrammar ==
    ( /\ res.op = "get_methods"
      /\ \A k \in 1..Len(input.lines) : input.lines[k].kind # "numbered" ) =>
        LET lines == GrammarMethodLines(FirstClassLine(cls.v.alias), res.alias)
            cands == method_candidates(backing, cls.v, res.alias)
        IN /\ Len(cands) = Len(lines)
           /\ \A j \in 1..Len(cands) : BuiltFromLine(cands[j], lines[j])

====
